---- MODULE Spec2Model ----
(***************************************************************************)
(* Bar-robot: the turret/actuator controller of hardware.py and the        *)
(* dispense, scaling and measure-parsing code of app.py.                   *)
(*                                                                         *)
(* Quantities are in hundredths of an ounce (150 is 1.5 oz): every         *)
(* quantity of the code is a float rounded to two decimals.  The shot size *)
(* of the configuration is any float: it is in thousandths (1500).         *)
(***************************************************************************)
EXTENDS Integers, Sequences, FiniteSets, TLC

VARIABLES
    SAFE_MODE,      \* hardware.SAFE_MODE
    current_slot,   \* hardware._current_slot
    gpio_ready,     \* hardware._gpio_ready
    pin_map,        \* hardware._pin_map
    gpio,           \* the GPIO backend: set up or released, its pins, the ENABLE line
    pc,             \* position of the thread of control
    ret,            \* where the running controller call returns to
    steps,          \* rotate_to_slot: iterations of the pulse loop still to run
    reps,           \* press_actuator: iterations of the press loop still to run
    entry,          \* the controller call last entered, with the state it found
    status,         \* of that call: "running", "returned" or "raised"
    io,             \* backend calls made by that call, counted by kind
    cfg,            \* config.json, as load_config returns it
    disp,           \* the make_drink request in progress: drink, position, events
    num,            \* a call of a scaling function: its arguments and result
    parsed,         \* a measure text of the download, and what _qty_to_oz made of it
    api,            \* a second request thread, in /api/rotate: its position and locals
    twin            \* the same calls made with safe mode on: the _current_slot they leave

vars == <<SAFE_MODE, current_slot, gpio_ready, pin_map, gpio, pc, ret, steps,
          reps, entry, status, io, cfg, disp, num, parsed, api, twin>>

----------------------------------------------------------------------------
(* Motion constants, hardware.py *)

TOTAL_SLOTS == 12

STEPS_PER_REV == 200

MICROSTEP == 8

STEPS_PER_SLOT == (STEPS_PER_REV * MICROSTEP) \div TOTAL_SLOTS

Signals == {"DIR", "STEP", "ENABLE", "ACTUATOR"}

DEFAULT_PIN_MAP ==
    [s \in Signals |-> CASE s = "DIR" -> 20 [] s = "STEP" -> 21
                         [] s = "ENABLE" -> 16 [] s = "ACTUATOR" -> 26]

(* The maps handed to set_pin_map: any subset of the four signals. *)
NewMaps ==
    { DEFAULT_PIN_MAP, [s \in {"ACTUATOR"} |-> 19] }

(* The largest repetition count handed to press_actuator. *)
MaxReps == 2

----------------------------------------------------------------------------
(* The backend.  GPIO.setup configures the pins of the map as outputs,      *)
(* GPIO.cleanup releases them; a released ENABLE line floats.               *)

Released == [setup |-> FALSE, pins |-> {}, enable |-> "FLOAT"]

GpioSetup(map) == [setup |-> TRUE, pins |-> {map[s] : s \in Signals},
                   enable |-> "FLOAT"]

(* GPIO.output(ENABLE, level): no effect on a released backend. *)
WriteEnable(g, level) == IF g.setup THEN [g EXCEPT !.enable = level] ELSE g

Kinds == {"setup", "release", "enable_low", "enable_high", "dir", "step",
          "act", "stray"}

NoIo == [k \in Kinds |-> 0]

(* n backend calls of kind k; an output on a backend that is not set up is  *)
(* also counted as stray.                                                   *)
Count(c, k, n, g) ==
    [x \in Kinds |->
        IF x = k THEN c[x] + n
        ELSE IF x = "stray" /\ ~g.setup /\ k \notin {"setup", "release"}
             THEN c[x] + n
        ELSE c[x]]

Enter(op, arg) ==
    [op |-> op, arg |-> arg, slot0 |-> current_slot, safe0 |-> SAFE_MODE,
     ready0 |-> gpio_ready, setup0 |-> gpio.setup, map0 |-> pin_map]

----------------------------------------------------------------------------
(* hardware.set_pin_map *)

SetPinMapReleasesAlways == TRUE

SetPinMapReleases == gpio_ready

MergePins(old, new) ==
    [s \in Signals |-> IF s \in DOMAIN new THEN new[s] ELSE old[s]]

set_pin_map(new_map) ==
    /\ entry' = Enter("set_pin_map", new_map)
    /\ status' = "returned"
    /\ IF SetPinMapReleases
       THEN /\ gpio' = Released
            /\ io' = Count(NoIo, "release", 1, gpio)
            /\ gpio_ready' = FALSE
       ELSE /\ io' = NoIo
            /\ UNCHANGED <<gpio, gpio_ready>>
    /\ pin_map' = MergePins(pin_map, new_map)

(* hardware.set_safe_mode *)
set_safe_mode(enabled) ==
    /\ entry' = Enter("set_safe_mode", 0)
    /\ status' = "returned"
    /\ io' = NoIo
    /\ SAFE_MODE' = enabled

(* hardware._ensure_gpio: the guard of its early return *)
EnsureSkips == gpio_ready \/ SAFE_MODE

(* _ensure_gpio setting up the pins of the map the module started with *)
EnsureGpioStale(c) ==
    IF EnsureSkips
    THEN /\ io' = c
         /\ UNCHANGED <<gpio, gpio_ready>>
    ELSE /\ gpio' = WriteEnable(GpioSetup(DEFAULT_PIN_MAP), "LOW")
         /\ io' = Count(Count(c, "setup", 1, gpio), "enable_low", 1,
                        GpioSetup(DEFAULT_PIN_MAP))
         /\ gpio_ready' = TRUE

(* hardware._ensure_gpio, run to its end; c counts the calls so far *)
EnsureGpio(c) ==
    IF EnsureSkips
    THEN /\ io' = c
         /\ UNCHANGED <<gpio, gpio_ready>>
    ELSE /\ gpio' = WriteEnable(GpioSetup(pin_map), "LOW")
         /\ io' = Count(Count(c, "setup", 1, gpio), "enable_low", 1,
                        GpioSetup(pin_map))
         /\ gpio_ready' = TRUE

(* hardware._ensure_gpio when its GPIO.output(ENABLE, LOW) raises: the pins *)
(* are set up, _gpio_ready is not yet assigned.                             *)
EnsureGpioRaises(c) ==
    /\ ~EnsureSkips
    /\ gpio' = GpioSetup(pin_map)
    /\ io' = Count(c, "setup", 1, gpio)
    /\ UNCHANGED gpio_ready

----------------------------------------------------------------------------
(* hardware.cleanup *)

CleanupActs == gpio_ready

cleanup ==
    /\ entry' = Enter("cleanup", 0)
    /\ status' = "returned"
    /\ IF CleanupActs
       THEN /\ gpio' = Released
            /\ io' = Count(Count(NoIo, "enable_high", 1, gpio), "release", 1,
                           gpio)
       ELSE /\ io' = NoIo
            /\ UNCHANGED gpio
    /\ UNCHANGED gpio_ready

(* cleanup when its GPIO.output(ENABLE, HIGH) raises: GPIO.cleanup is not   *)
(* reached.                                                                 *)
cleanupRaises ==
    /\ CleanupActs
    /\ entry' = Enter("cleanup", 0)
    /\ status' = "raised"
    /\ io' = NoIo
    /\ UNCHANGED <<gpio, gpio_ready>>

----------------------------------------------------------------------------
(* An exception leaving a controller call.  Neither hardware.py nor         *)
(* make_drink catches it: it unwinds to the caller of the controller, and   *)
(* from make_drink out of the request.                                      *)
Raise ==
    /\ status' = "raised"
    /\ ret' = "idle"
    /\ IF ret = "idle"
       THEN /\ pc' = "idle"
            /\ UNCHANGED disp
       ELSE /\ pc' = "md_done"
            /\ disp' = [disp EXCEPT !.state = "raised"]

----------------------------------------------------------------------------
(* hardware.rotate_to_slot *)

(* The shorter way round, either direction *)
RotateDeltaShortest(slot, cur) ==
    IF (slot - cur) % TOTAL_SLOTS <= TOTAL_SLOTS \div 2
    THEN (slot - cur) % TOTAL_SLOTS
    ELSE (cur - slot) % TOTAL_SLOTS

RotateDelta(slot, cur) == (slot - cur) % TOTAL_SLOTS

RotateIsSimulated == SAFE_MODE

(* Lines 117-123: the no-op, the safe-mode branch, or on to the hardware.   *)
RotateEnter(slot, r) ==
    /\ entry' = Enter("rotate", slot)
    /\ io' = NoIo
    /\ UNCHANGED <<SAFE_MODE, gpio_ready, pin_map, gpio, reps>>
    /\ IF slot = current_slot
       THEN /\ status' = "returned"
            /\ pc' = r
            /\ UNCHANGED <<current_slot, ret, steps>>
       ELSE IF RotateIsSimulated
       THEN /\ current_slot' = slot
            /\ status' = "returned"
            /\ pc' = r
            /\ UNCHANGED <<ret, steps>>
       ELSE /\ status' = "running"
            /\ pc' = "rot_ensure"
            /\ ret' = r
            /\ steps' = 0
            /\ UNCHANGED current_slot

(* Line 125 *)
RotateEnsure ==
    /\ pc = "rot_ensure"
    /\ \/ /\ EnsureGpio(io)
          /\ pc' = "rot_dir"
          /\ UNCHANGED <<status, ret, disp>>
       \/ /\ EnsureGpioRaises(io)
          /\ Raise
    /\ UNCHANGED <<SAFE_MODE, current_slot, pin_map, steps, reps, entry, cfg>>
    /\ UNCHANGED <<num, parsed, api, twin>>

(* Lines 127-130: the step count, then DIR high (or the write raises). *)
RotateDir ==
    /\ pc = "rot_dir"
    /\ \/ /\ steps' = RotateDelta(entry.arg, current_slot) * STEPS_PER_SLOT
          /\ io' = Count(io, "dir", 1, gpio)
          /\ pc' = "rot_loop"
          /\ UNCHANGED <<status, ret, disp>>
       \/ /\ Raise
          /\ UNCHANGED <<steps, io>>
    /\ UNCHANGED <<SAFE_MODE, current_slot, gpio_ready, pin_map, gpio, reps,
                   entry, cfg>>
    /\ UNCHANGED <<num, parsed, api, twin>>

(* Lines 131-135, one slot of travel at a time: STEPS_PER_SLOT iterations   *)
(* of the loop, each a STEP pulse.  steps is a multiple of STEPS_PER_SLOT.  *)
RotatePulses ==
    /\ pc = "rot_loop"
    /\ steps > 0
    /\ steps' = steps - STEPS_PER_SLOT
    /\ io' = Count(io, "step", STEPS_PER_SLOT, gpio)
    /\ UNCHANGED <<SAFE_MODE, current_slot, gpio_ready, pin_map, gpio, pc, ret,
                   reps, entry, status, cfg, disp>>
    /\ UNCHANGED <<num, parsed, api, twin>>

(* A STEP write of the loop raises (the first of a slot of travel): the     *)
(* call ends there, _current_slot unassigned.                               *)
RotatePulseRaises ==
    /\ pc = "rot_loop"
    /\ steps > 0
    /\ Raise
    /\ steps' = 0
    /\ UNCHANGED <<SAFE_MODE, current_slot, gpio_ready, pin_map, gpio, reps,
                   entry, io, cfg>>
    /\ UNCHANGED <<num, parsed, api, twin>>

(* After the loop, the turret position advanced to the distance travelled *)
RotateSetByDelta ==
    /\ pc = "rot_loop"
    /\ steps = 0
    /\ current_slot' = RotateDelta(entry.arg, current_slot)
    /\ status' = "returned"
    /\ pc' = ret
    /\ ret' = "idle"
    /\ UNCHANGED <<SAFE_MODE, gpio_ready, pin_map, gpio, steps, reps, entry,
                   io, cfg, disp>>
    /\ UNCHANGED <<num, parsed, api, twin>>

(* Line 137, after the loop *)
RotateSet ==
    /\ pc = "rot_loop"
    /\ steps = 0
    /\ current_slot' = entry.arg
    /\ status' = "returned"
    /\ pc' = ret
    /\ ret' = "idle"
    /\ UNCHANGED <<SAFE_MODE, gpio_ready, pin_map, gpio, steps, reps, entry,
                   io, cfg, disp>>
    /\ UNCHANGED <<num, parsed, api, twin>>

----------------------------------------------------------------------------
(* hardware.press_actuator *)

PressNeverSimulated == FALSE

PressIsSimulated == SAFE_MODE

PressEnter(repetitions, r) ==
    /\ entry' = Enter("press", repetitions)
    /\ io' = NoIo
    /\ UNCHANGED <<SAFE_MODE, current_slot, gpio_ready, pin_map, gpio, steps>>
    /\ IF PressIsSimulated
       THEN /\ status' = "returned"
            /\ pc' = r
            /\ UNCHANGED <<ret, reps>>
       ELSE /\ status' = "running"
            /\ pc' = "press_ensure"
            /\ ret' = r
            /\ reps' = repetitions

(* Line 147 *)
PressEnsure ==
    /\ pc = "press_ensure"
    /\ \/ /\ EnsureGpio(io)
          /\ pc' = "press_loop"
          /\ UNCHANGED <<status, ret, reps, disp>>
       \/ /\ EnsureGpioRaises(io)
          /\ Raise
          /\ reps' = 0
    /\ UNCHANGED <<SAFE_MODE, current_slot, pin_map, steps, entry, cfg>>
    /\ UNCHANGED <<num, parsed, api, twin>>

(* Lines 149-154: one iteration, ACTUATOR high then low *)
PressOnce ==
    /\ pc = "press_loop"
    /\ reps > 0
    /\ reps' = reps - 1
    /\ io' = Count(io, "act", 1, gpio)
    /\ UNCHANGED <<SAFE_MODE, current_slot, gpio_ready, pin_map, gpio, pc, ret,
                   steps, entry, status, cfg, disp>>
    /\ UNCHANGED <<num, parsed, api, twin>>

(* The ACTUATOR write of an iteration raises *)
PressRaises ==
    /\ pc = "press_loop"
    /\ reps > 0
    /\ Raise
    /\ reps' = 0
    /\ UNCHANGED <<SAFE_MODE, current_slot, gpio_ready, pin_map, gpio, steps,
                   entry, io, cfg>>
    /\ UNCHANGED <<num, parsed, api, twin>>

(* The loop is over: the call returns *)
PressReturn ==
    /\ pc = "press_loop"
    /\ reps = 0
    /\ status' = "returned"
    /\ pc' = ret
    /\ ret' = "idle"
    /\ UNCHANGED <<SAFE_MODE, current_slot, gpio_ready, pin_map, gpio, steps,
                   reps, entry, io, cfg, disp>>
    /\ UNCHANGED <<num, parsed, api, twin>>

----------------------------------------------------------------------------
(* The controller driven through its public API, one call at a time. *)

CallSetPinMap ==
    /\ pc = "idle"
    /\ \E m \in NewMaps : set_pin_map(m)
    /\ UNCHANGED <<SAFE_MODE, current_slot, pc, ret, steps, reps, cfg, disp>>
    /\ UNCHANGED <<num, parsed, api, twin>>

CallSetSafeMode ==
    /\ pc = "idle"
    /\ \E b \in BOOLEAN : set_safe_mode(b)
    /\ UNCHANGED <<current_slot, gpio_ready, pin_map, gpio, pc, ret, steps,
                   reps, cfg, disp>>
    /\ UNCHANGED <<num, parsed, api, twin>>

CallCleanup ==
    /\ pc = "idle"
    /\ (cleanup \/ cleanupRaises)
    /\ UNCHANGED <<SAFE_MODE, current_slot, pin_map, pc, ret, steps, reps, cfg,
                   disp>>
    /\ UNCHANGED <<num, parsed, api, twin>>

CallRotate ==
    /\ pc = "idle"
    /\ \E slot \in 0 .. TOTAL_SLOTS - 1 : RotateEnter(slot, "idle")
    /\ UNCHANGED <<cfg, disp>>
    /\ UNCHANGED <<num, parsed, api, twin>>

CallPress ==
    /\ pc = "idle"
    /\ \E n \in 0 .. MaxReps : PressEnter(n, "idle")
    /\ UNCHANGED <<cfg, disp>>
    /\ UNCHANGED <<num, parsed, api, twin>>

----------------------------------------------------------------------------
(* app.py: quantities.  round(x, 2) and round(x) round to the nearest,      *)
(* a tie to the even neighbour.                                             *)

(* n/d rounded to the nearest integer, n >= 0 and d > 0 *)
RoundHalfEven(n, d) ==
    LET q == n \div d
        r == n % d
    IN  IF 2 * r < d THEN q
        ELSE IF 2 * r > d THEN q + 1
        ELSE IF q % 2 = 0 THEN q ELSE q + 1

Min(S) == CHOOSE m \in S : \A x \in S : m <= x

Max(S) == CHOOSE m \in S : \A x \in S : m >= x

(* The reference of _scale: 1.5 oz *)
REFERENCE == 150

(* Scaling that brings the largest quantity to the reference *)
scaleToLargest(lst) ==
    LET liquids == {lst[i].qty_oz : i \in {j \in DOMAIN lst : lst[j].qty_oz > 0}}
    IN  IF liquids = {} THEN lst
        ELSE [i \in DOMAIN lst |->
                IF lst[i].qty_oz > 0
                THEN [lst[i] EXCEPT
                        !.qty_oz = RoundHalfEven(lst[i].qty_oz * REFERENCE,
                                                 Max(liquids))]
                ELSE lst[i]]

(* Scaling by the reference itself, whatever the smallest quantity *)
scaleByReference(lst) ==
    [i \in DOMAIN lst |->
        [lst[i] EXCEPT !.qty_oz = RoundHalfEven(lst[i].qty_oz * REFERENCE, 100)]]

(* app._scale *)
scale(lst) ==
    LET liquids == {lst[i].qty_oz : i \in {j \in DOMAIN lst : lst[j].qty_oz > 0}}
    IN  IF liquids = {} THEN lst
        ELSE [i \in DOMAIN lst |->
                IF lst[i].qty_oz > 0
                THEN [lst[i] EXCEPT
                        !.qty_oz = RoundHalfEven(lst[i].qty_oz * REFERENCE,
                                                 Min(liquids))]
                ELSE lst[i]]

(* app._nearest_multiple: floor(value / step + 0.5) * step *)
nearest_multiple(value, step) == ((2 * value + step) \div (2 * step)) * step

----------------------------------------------------------------------------
(* app.py: the bottle configuration *)

Items == {"gin", "vermouth", "lime"}

(* None in cfg["slots"] *)
NoBottle == "none"

(* None as the result of _slot_for *)
NoSlot == 0 - 1

InSlots(item, c) == \E i \in DOMAIN c.slots : c.slots[i] = item

(* list.index: the first position, from 0 *)
Index(item, slots) ==
    (CHOOSE i \in DOMAIN slots :
        slots[i] = item /\ \A j \in 1 .. i - 1 : slots[j] # item) - 1

(* Availability that follows a second substitution *)
availChained(item, c) ==
    LET stocked(x) == InSlots(x, c) \/ x \in c.pantry
        sub(x) == c.substitutions[x]
    IN  \/ stocked(item)
        \/ /\ item \in DOMAIN c.substitutions
           /\ \/ stocked(sub(item))
              \/ /\ sub(item) \in DOMAIN c.substitutions
                 /\ stocked(sub(sub(item)))

(* app._avail *)
avail(item, c) ==
    \/ InSlots(item, c)
    \/ item \in c.pantry
    \/ /\ item \in DOMAIN c.substitutions
       /\ \/ InSlots(c.substitutions[item], c)
          \/ c.substitutions[item] \in c.pantry

(* Slot numbers counted from 1 *)
slot_forFromOne(item, c) ==
    IF InSlots(item, c) THEN Index(item, c.slots) + 1
    ELSE IF item \in DOMAIN c.substitutions
            /\ InSlots(c.substitutions[item], c)
         THEN Index(c.substitutions[item], c.slots) + 1
    ELSE NoSlot

(* app._slot_for *)
slot_for(item, c) ==
    IF InSlots(item, c) THEN Index(item, c.slots)
    ELSE IF item \in DOMAIN c.substitutions
            /\ InSlots(c.substitutions[item], c)
         THEN Index(c.substitutions[item], c.slots)
    ELSE NoSlot

(* scale_for_slots, lines 135-136, without the safety *)
TargetUnforced(nearest, shot) == nearest

(* scale_for_slots, lines 135-136: a target of 0 is replaced by one shot *)
Target(nearest, shot) == IF nearest = 0 THEN shot ELSE nearest

(* app.scale_for_slots.  shot_size is in thousandths of an ounce, so that   *)
(* the last round(x, 2) of a snapped quantity is a rounding, not the        *)
(* identity; the quantities are in hundredths as everywhere.                *)
scale_for_slots(items, c) ==
    LET shot == c.shot_size
        slot_liq == {i \in DOMAIN items :
                        InSlots(items[i].item, c) /\ items[i].qty_oz > 0}
    IN  IF slot_liq = {} THEN items
        ELSE
        LET anchor_qty == 10 * Max({items[i].qty_oz : i \in slot_liq})
            target == Target(nearest_multiple(anchor_qty, shot), shot)
        IN  [i \in DOMAIN items |->
                IF items[i].qty_oz > 0
                THEN [items[i] EXCEPT !.qty_oz =
                        IF InSlots(items[i].item, c)
                        THEN RoundHalfEven(
                                ((2 * 10 * items[i].qty_oz * target
                                    + shot * anchor_qty)
                                  \div (2 * shot * anchor_qty)) * shot, 10)
                        ELSE RoundHalfEven(items[i].qty_oz * target,
                                           anchor_qty)]
                ELSE items[i]]

(* load_config with no config.json *)
EmptySlots == [i \in 1 .. TOTAL_SLOTS |-> NoBottle]

DefaultConfig ==
    [shot_size |-> 1500, slots |-> EmptySlots, pantry |-> {},
     substitutions |-> [i \in {} |-> ""], safe_mode |-> TRUE,
     pins |-> DEFAULT_PIN_MAP]

(* What the /configure form saves *)
Layouts ==
    { EmptySlots,
      [EmptySlots EXCEPT ![2] = "gin"],
      [EmptySlots EXCEPT ![2] = "gin", ![11] = "vermouth"] }

Pantries == { {}, {"vermouth"} }

Substitutions == { [i \in {} |-> ""], [i \in {"lime"} |-> "gin"] }

(* shot_size, in thousandths of an ounce *)
ShotSizes == { 1500 }

Configs ==
    { [shot_size |-> z, slots |-> l, pantry |-> p, substitutions |-> s,
       safe_mode |-> b, pins |-> DEFAULT_PIN_MAP] :
        z \in ShotSizes, l \in Layouts, p \in Pantries, s \in Substitutions,
        b \in BOOLEAN }

(* recipes.json: what _download_all caches, each recipe's measures parsed   *)
(* and passed through _scale.                                               *)
MaxIngredients == 2

Qtys == {0, 50, 75, 200}

Lines == [item : Items, qty_oz : Qtys]

RawRecipes ==
    UNION { { r \in [1 .. n -> Lines] :
                \A i, j \in 1 .. n : i # j => r[i].item # r[j].item } :
            n \in 1 .. MaxIngredients }

Catalogue == { scale(r) : r \in RawRecipes }

----------------------------------------------------------------------------
(* app.make_drink *)

NoDisp == [state |-> "none", drink |-> <<>>, idx |-> 0, events |-> <<>>,
           calls |-> <<>>]

NoEntry == [op |-> "none", arg |-> 0, slot0 |-> 0, safe0 |-> TRUE,
            ready0 |-> FALSE, setup0 |-> FALSE, map0 |-> DEFAULT_PIN_MAP]

(* POST /configure *)
Configure ==
    /\ pc = "idle"
    /\ cfg' \in Configs
    /\ UNCHANGED <<SAFE_MODE, current_slot, gpio_ready, pin_map, gpio, pc, ret,
                   steps, reps, entry, status, io, disp>>
    /\ UNCHANGED <<num, parsed, api, twin>>

(* Lines 325-328 *)
MakeDrink ==
    /\ pc = "idle"
    /\ set_pin_map(cfg.pins)
    /\ pc' = "md_safe"
    /\ disp' = [NoDisp EXCEPT !.state = "running"]
    /\ UNCHANGED <<SAFE_MODE, current_slot, ret, steps, reps, cfg>>
    /\ UNCHANGED <<num, parsed, api, twin>>

(* Line 329 *)
MdSetSafeMode ==
    /\ pc = "md_safe"
    /\ set_safe_mode(cfg.safe_mode)
    /\ pc' = "md_lookup"
    /\ UNCHANGED <<current_slot, gpio_ready, pin_map, gpio, ret, steps, reps,
                   cfg, disp>>
    /\ UNCHANGED <<num, parsed, api, twin>>

(* Lines 332-338: the recipe of that name, or none *)
MdLookup ==
    /\ pc = "md_lookup"
    /\ \/ \E d \in Catalogue :
            /\ disp' = [disp EXCEPT !.drink = d, !.idx = 1]
            /\ pc' = "md_item"
       \/ /\ disp' = [disp EXCEPT !.state = "notfound",
                                  !.events = <<"notfound">>]
          /\ pc' = "md_done"
    /\ UNCHANGED <<SAFE_MODE, current_slot, gpio_ready, pin_map, gpio, ret,
                   steps, reps, entry, status, io, cfg>>
    /\ UNCHANGED <<num, parsed, api, twin>>

AtItem == pc = "md_item" /\ disp.idx <= Len(disp.drink)

Item == disp.drink[disp.idx].item

Qty == disp.drink[disp.idx].qty_oz

(* An unavailable ingredient is reported and skipped *)
MdMissingSkips ==
    /\ AtItem
    /\ ~avail(Item, cfg)
    /\ disp' = [disp EXCEPT !.events = Append(@, "missing"), !.idx = @ + 1]
    /\ UNCHANGED <<SAFE_MODE, current_slot, gpio_ready, pin_map, gpio, pc, ret,
                   steps, reps, entry, status, io, cfg>>
    /\ UNCHANGED <<num, parsed, api, twin>>

(* Lines 342-344 *)
MdMissing ==
    /\ AtItem
    /\ ~avail(Item, cfg)
    /\ disp' = [disp EXCEPT !.state = "missing",
                            !.events = Append(@, "missing")]
    /\ pc' = "md_done"
    /\ UNCHANGED <<SAFE_MODE, current_slot, gpio_ready, pin_map, gpio, ret,
                   steps, reps, entry, status, io, cfg>>
    /\ UNCHANGED <<num, parsed, api, twin>>

(* Lines 346-353 *)
MdSlotItem ==
    /\ AtItem
    /\ avail(Item, cfg)
    /\ slot_for(Item, cfg) # NoSlot
    /\ RotateEnter(slot_for(Item, cfg), "md_press")
    /\ disp' = [disp EXCEPT
                  !.events = Append(@, "start"),
                  !.calls = Append(@, [op |-> "rotate", item |-> Item,
                                       qty |-> Qty,
                                       arg |-> slot_for(Item, cfg),
                                       at |-> current_slot])]
    /\ UNCHANGED cfg
    /\ UNCHANGED <<num, parsed, api, twin>>

(* Lines 354-355 *)
MdPress ==
    /\ pc = "md_press"
    /\ PressEnter(RoundHalfEven(Qty, 100), "md_next")
    /\ disp' = [disp EXCEPT
                  !.events = Append(@, "dispensing"),
                  !.calls = Append(@, [op |-> "press", item |-> Item,
                                       qty |-> Qty,
                                       arg |-> RoundHalfEven(Qty, 100),
                                       at |-> current_slot])]
    /\ UNCHANGED cfg
    /\ UNCHANGED <<num, parsed, api, twin>>

(* Lines 346-349, 356-358 *)
MdPantryItem ==
    /\ AtItem
    /\ avail(Item, cfg)
    /\ slot_for(Item, cfg) = NoSlot
    /\ disp' = [disp EXCEPT !.events = @ \o <<"start", "pantry">>,
                            !.idx = @ + 1]
    /\ UNCHANGED <<SAFE_MODE, current_slot, gpio_ready, pin_map, gpio, pc, ret,
                   steps, reps, entry, status, io, cfg>>
    /\ UNCHANGED <<num, parsed, api, twin>>

(* Line 341: on to the next ingredient *)
MdNext ==
    /\ pc = "md_next"
    /\ disp' = [disp EXCEPT !.idx = @ + 1]
    /\ pc' = "md_item"
    /\ UNCHANGED <<SAFE_MODE, current_slot, gpio_ready, pin_map, gpio, ret,
                   steps, reps, entry, status, io, cfg>>
    /\ UNCHANGED <<num, parsed, api, twin>>

(* Lines 360-361 *)
MdReady ==
    /\ pc = "md_item"
    /\ disp.idx > Len(disp.drink)
    /\ disp' = [disp EXCEPT !.state = "ready", !.events = Append(@, "ready")]
    /\ pc' = "md_done"
    /\ UNCHANGED <<SAFE_MODE, current_slot, gpio_ready, pin_map, gpio, ret,
                   steps, reps, entry, status, io, cfg>>
    /\ UNCHANGED <<num, parsed, api, twin>>

(* The request is over: its response is sent, its locals are gone. *)
Respond ==
    /\ pc = "md_done"
    /\ pc' = "idle"
    /\ disp' = NoDisp
    /\ entry' = NoEntry
    /\ status' = "returned"
    /\ io' = NoIo
    /\ UNCHANGED <<SAFE_MODE, current_slot, gpio_ready, pin_map, gpio, ret,
                   steps, reps, cfg>>
    /\ UNCHANGED <<num, parsed, api, twin>>

----------------------------------------------------------------------------
NoNum == [fn |-> "none", state |-> "none"]

NoParsed == [raw |-> <<>>, state |-> "none"]

NoApi == [pc |-> "idle", slot |-> 0, steps |-> 0, safe |-> TRUE]

NoTwin == [state |-> "none", slot |-> 0, faulted |-> FALSE]

Controller ==
    /\ SAFE_MODE = TRUE
    /\ current_slot = 0
    /\ gpio_ready = FALSE
    /\ pin_map = DEFAULT_PIN_MAP
    /\ gpio = Released
    /\ pc = "idle"
    /\ ret = "idle"
    /\ steps = 0
    /\ reps = 0
    /\ entry = NoEntry
    /\ status = "returned"
    /\ io = NoIo
    /\ cfg = DefaultConfig
    /\ disp = NoDisp
    /\ api = NoApi
    /\ twin = NoTwin

Init ==
    /\ Controller
    /\ num = NoNum
    /\ parsed = NoParsed

RotateSteps ==
    \/ RotateEnsure
    \/ RotateDir
    \/ RotatePulses
    \/ RotatePulseRaises
    \/ RotateSet

PressSteps ==
    \/ PressEnsure
    \/ PressOnce
    \/ PressRaises
    \/ PressReturn

(* The controller under any sequence of calls of its API *)
Next ==
    \/ CallSetPinMap
    \/ CallSetSafeMode
    \/ CallCleanup
    \/ CallRotate
    \/ CallPress
    \/ RotateSteps
    \/ PressSteps

Spec == Init /\ [][Next]_vars


----------------------------------------------------------------------------
(* The real path beside the safe-mode path: safe mode is switched off and   *)
(* rotate_to_slot and press_actuator are called; twin follows what the same *)
(* calls leave in _current_slot when safe mode is on.                       *)

(* rotate_to_slot with SAFE_MODE set, lines 117-123 *)
SimRotate(cur, slot) == IF slot = cur THEN cur ELSE slot

(* press_actuator with SAFE_MODE set, lines 143-145 *)
SimPress(cur) == cur

ShapeStart ==
    /\ pc = "idle"
    /\ twin.state = "none"
    /\ set_safe_mode(FALSE)
    /\ twin' = [state |-> "run", slot |-> current_slot, faulted |-> FALSE]
    /\ UNCHANGED <<current_slot, gpio_ready, pin_map, gpio, pc, ret, steps,
                   reps, cfg, disp, num, parsed, api>>

ShapeRotate ==
    /\ pc = "idle"
    /\ twin.state = "run"
    /\ \E slot \in 0 .. TOTAL_SLOTS - 1 :
        /\ RotateEnter(slot, "idle")
        /\ twin' = [twin EXCEPT !.slot = SimRotate(@, slot),
                                !.faulted = @ \/ status = "raised"]
    /\ UNCHANGED <<cfg, disp, num, parsed, api>>

ShapePress ==
    /\ pc = "idle"
    /\ twin.state = "run"
    /\ \E n \in 0 .. MaxReps :
        /\ PressEnter(n, "idle")
        /\ twin' = [twin EXCEPT !.slot = SimPress(@),
                                !.faulted = @ \/ status = "raised"]
    /\ UNCHANGED <<cfg, disp, num, parsed, api>>

NextShape ==
    \/ ShapeStart
    \/ ShapeRotate
    \/ ShapePress
    \/ RotateSteps
    \/ PressSteps

SpecShape == Init /\ [][NextShape]_vars

----------------------------------------------------------------------------
(* _scale on its own: an ingredient list is drawn, _scale is applied to it  *)
(* and then to its own result.                                              *)

(* Parsed measures, in hundredths: 0 for a garnish, 0.33 for "1/3" *)
ScaleQtys == {0, 33, 50, 75, 100, 200}

ScaleLists ==
    UNION { [1 .. n -> [item : Items, qty_oz : ScaleQtys]] :
            n \in 0 .. MaxIngredients }

InitScale ==
    /\ Controller
    /\ parsed = NoParsed
    /\ num \in [fn : {"scale"}, lst : ScaleLists, state : {"called"}]

Scale ==
    /\ num.fn = "scale"
    /\ num.state = "called"
    /\ num' = [fn |-> num.fn, lst |-> num.lst, state |-> "returned",
               out |-> scale(num.lst)]
    /\ UNCHANGED <<SAFE_MODE, current_slot, gpio_ready, pin_map, gpio, pc, ret,
                   steps, reps, entry, status, io, cfg, disp, parsed, api,
                   twin>>

ScaleAgain ==
    /\ num.fn = "scale"
    /\ num.state = "returned"
    /\ num' = [fn |-> num.fn, lst |-> num.lst, state |-> "rescaled",
               out |-> num.out, again |-> scale(num.out)]
    /\ UNCHANGED <<SAFE_MODE, current_slot, gpio_ready, pin_map, gpio, pc, ret,
                   steps, reps, entry, status, io, cfg, disp, parsed, api,
                   twin>>

NextScale ==
    \/ Scale
    \/ ScaleAgain

SpecScale == InitScale /\ [][NextScale]_vars

----------------------------------------------------------------------------
(* scale_for_slots on its own: a cached recipe and a configuration are      *)
(* drawn, the function is applied.                                          *)

(* shot_size as /configure accepts it: any float from 0.5 up, here in       *)
(* thousandths.                                                             *)
SlotShots == {500, 501, 750, 1500, 4000}

(* Quantities of cached recipes: results of _scale *)
SlotQtys == {0, 150, 225, 450, 600}

SlotLists ==
    UNION { { r \in [1 .. n -> [item : Items, qty_oz : SlotQtys]] :
                \A i, j \in 1 .. n : i # j => r[i].item # r[j].item } :
            n \in 1 .. MaxIngredients }

SlotConfigs ==
    { [shot_size |-> z, slots |-> l, pantry |-> {},
       substitutions |-> [i \in {} |-> ""], safe_mode |-> TRUE,
       pins |-> DEFAULT_PIN_MAP] : z \in SlotShots, l \in Layouts }

InitSlots ==
    /\ Controller
    /\ parsed = NoParsed
    /\ num \in [fn : {"scale_for_slots"}, lst : SlotLists, c : SlotConfigs,
                state : {"called"}]

ScaleForSlots ==
    /\ num.fn = "scale_for_slots"
    /\ num.state = "called"
    /\ num' = [fn |-> num.fn, lst |-> num.lst, c |-> num.c,
               state |-> "returned",
               out |-> scale_for_slots(num.lst, num.c)]
    /\ UNCHANGED <<SAFE_MODE, current_slot, gpio_ready, pin_map, gpio, pc, ret,
                   steps, reps, entry, status, io, cfg, disp, parsed, api,
                   twin>>

NextSlots ==
    \/ ScaleForSlots

SpecSlots == InitSlots /\ [][NextSlots]_vars

----------------------------------------------------------------------------
(* The resolver on its own: an item and a bottle configuration are drawn,   *)
(* _avail and _slot_for are applied.                                        *)

(* Every substitution table over the items, chains and loops included *)
AllSubstitutions == UNION { [D -> Items] : D \in SUBSET Items }

ResolveConfigs ==
    { [shot_size |-> z, slots |-> l, pantry |-> p, substitutions |-> s,
       safe_mode |-> TRUE, pins |-> DEFAULT_PIN_MAP] :
        z \in ShotSizes, l \in Layouts, p \in SUBSET Items,
        s \in AllSubstitutions }

InitResolve ==
    /\ Controller
    /\ parsed = NoParsed
    /\ num \in [fn : {"resolve"}, item : Items, c : ResolveConfigs,
                state : {"called"}]

Resolve ==
    /\ num.fn = "resolve"
    /\ num.state = "called"
    /\ num' = [fn |-> num.fn, item |-> num.item, c |-> num.c,
               state |-> "returned",
               available |-> avail(num.item, num.c),
               slot |-> slot_for(num.item, num.c)]
    /\ UNCHANGED <<SAFE_MODE, current_slot, gpio_ready, pin_map, gpio, pc, ret,
                   steps, reps, entry, status, io, cfg, disp, parsed, api,
                   twin>>

NextResolve ==
    \/ Resolve

SpecResolve == InitResolve /\ [][NextResolve]_vars

----------------------------------------------------------------------------
(* app.api_rotate, handled by a request thread of its own.  The thread runs *)
(* set_pin_map, set_safe_mode and rotate_to_slot on the globals of          *)
(* hardware.py; no lock guards them.  Its backend writes do not fail.       *)

(* The slot numbers requested of /api/rotate/<slot> *)
ApiSlots == {0, 1, 12, 13}

(* Line 318, with the bounds off by one *)
SlotInRangeFromZero(slot) == 0 <= slot /\ slot <= TOTAL_SLOTS + 1

(* Line 318 *)
SlotInRange(slot) == 1 <= slot /\ slot <= TOTAL_SLOTS

(* Lines 318-319: the range check, load_config, set_pin_map(cfg["pins"]) *)
ApiRotate ==
    /\ api.pc = "idle"
    /\ \E slot \in ApiSlots :
        IF SlotInRange(slot)
        THEN /\ api' = [pc |-> "ar_safe", slot |-> slot - 1, steps |-> 0,
                        safe |-> cfg.safe_mode]
             /\ pin_map' = MergePins(pin_map, cfg.pins)
             /\ IF SetPinMapReleases
                THEN /\ gpio' = Released
                     /\ gpio_ready' = FALSE
                ELSE UNCHANGED <<gpio, gpio_ready>>
        ELSE /\ api' = [pc |-> "ar_error", slot |-> slot, steps |-> 0,
                        safe |-> cfg.safe_mode]
             /\ UNCHANGED <<pin_map, gpio, gpio_ready>>
    /\ UNCHANGED <<SAFE_MODE, current_slot, pc, ret, steps, reps, entry,
                   status, io, cfg, disp, num, parsed, twin>>

(* Line 319: set_safe_mode(cfg["safe_mode"]) *)
ApiSetSafeMode ==
    /\ api.pc = "ar_safe"
    /\ SAFE_MODE' = api.safe
    /\ api' = [api EXCEPT !.pc = "ar_rotate"]
    /\ UNCHANGED <<current_slot, gpio_ready, pin_map, gpio, pc, ret, steps,
                   reps, entry, status, io, cfg, disp, num, parsed, twin>>

(* Line 320, rotate_to_slot(slot - 1), lines 117-123 *)
ApiRotateEnter ==
    /\ api.pc = "ar_rotate"
    /\ IF api.slot = current_slot
       THEN /\ api' = [api EXCEPT !.pc = "ar_done"]
            /\ UNCHANGED current_slot
       ELSE IF RotateIsSimulated
       THEN /\ current_slot' = api.slot
            /\ api' = [api EXCEPT !.pc = "ar_done"]
       ELSE /\ api' = [api EXCEPT !.pc = "ar_ensure"]
            /\ UNCHANGED current_slot
    /\ UNCHANGED <<SAFE_MODE, gpio_ready, pin_map, gpio, pc, ret, steps, reps,
                   entry, status, io, cfg, disp, num, parsed, twin>>

(* rotate_to_slot, line 125 *)
ApiEnsure ==
    /\ api.pc = "ar_ensure"
    /\ IF EnsureSkips
       THEN UNCHANGED <<gpio, gpio_ready>>
       ELSE /\ gpio' = WriteEnable(GpioSetup(pin_map), "LOW")
            /\ gpio_ready' = TRUE
    /\ api' = [api EXCEPT !.pc = "ar_dir"]
    /\ UNCHANGED <<SAFE_MODE, current_slot, pin_map, pc, ret, steps, reps,
                   entry, status, io, cfg, disp, num, parsed, twin>>

(* rotate_to_slot, lines 127-130 *)
ApiDir ==
    /\ api.pc = "ar_dir"
    /\ api' = [api EXCEPT
                 !.pc = "ar_loop",
                 !.steps = RotateDelta(api.slot, current_slot) * STEPS_PER_SLOT]
    /\ UNCHANGED <<SAFE_MODE, current_slot, gpio_ready, pin_map, gpio, pc, ret,
                   steps, reps, entry, status, io, cfg, disp, num, parsed,
                   twin>>

(* rotate_to_slot, lines 131-135, one slot of travel at a time *)
ApiPulses ==
    /\ api.pc = "ar_loop"
    /\ api.steps > 0
    /\ api' = [api EXCEPT !.steps = @ - STEPS_PER_SLOT]
    /\ UNCHANGED <<SAFE_MODE, current_slot, gpio_ready, pin_map, gpio, pc, ret,
                   steps, reps, entry, status, io, cfg, disp, num, parsed,
                   twin>>

(* rotate_to_slot, line 137 *)
ApiSet ==
    /\ api.pc = "ar_loop"
    /\ api.steps = 0
    /\ current_slot' = api.slot
    /\ api' = [api EXCEPT !.pc = "ar_done"]
    /\ UNCHANGED <<SAFE_MODE, gpio_ready, pin_map, gpio, pc, ret, steps, reps,
                   entry, status, io, cfg, disp, num, parsed, twin>>

(* Lines 318 and 320: the response, error 400 or ok *)
ApiRespond ==
    /\ api.pc \in {"ar_done", "ar_error"}
    /\ api' = NoApi
    /\ UNCHANGED <<SAFE_MODE, current_slot, gpio_ready, pin_map, gpio, pc, ret,
                   steps, reps, entry, status, io, cfg, disp, num, parsed,
                   twin>>

ApiSteps ==
    \/ ApiSetSafeMode
    \/ ApiRotateEnter
    \/ ApiEnsure
    \/ ApiDir
    \/ ApiPulses
    \/ ApiSet
    \/ ApiRespond

(* Requests handled one at a time: a request starts when no other runs *)
SerialMakeDrink == api.pc = "idle" /\ MakeDrink

SerialApiRotate == pc = "idle" /\ ApiRotate

(* The application: the bottles are configured, drinks are made and the     *)
(* turret is turned from the motor page, one request at a time.             *)
NextDispense ==
    \/ Configure
    \/ SerialMakeDrink
    \/ MdSetSafeMode
    \/ MdLookup
    \/ MdMissing
    \/ MdSlotItem
    \/ MdPress
    \/ MdPantryItem
    \/ MdNext
    \/ MdReady
    \/ Respond
    \/ RotateSteps
    \/ PressSteps
    \/ SerialApiRotate
    \/ ApiSteps

SpecDispense == Init /\ [][NextDispense]_vars

(* Two requests handled by two threads at once: one make_drink and one      *)
(* api_rotate run side by side, each to the end of its handler.             *)
NextConcurrent ==
    \/ Configure
    \/ MakeDrink
    \/ MdSetSafeMode
    \/ MdLookup
    \/ MdMissing
    \/ MdSlotItem
    \/ MdPress
    \/ MdPantryItem
    \/ MdNext
    \/ MdReady
    \/ RotateSteps
    \/ PressSteps
    \/ ApiRotate
    \/ ApiSetSafeMode
    \/ ApiRotateEnter
    \/ ApiEnsure
    \/ ApiDir
    \/ ApiPulses
    \/ ApiSet

SpecConcurrent == Init /\ [][NextConcurrent]_vars

----------------------------------------------------------------------------
(* The scaling functions on their own: the arguments are drawn, the         *)
(* function is applied.                                                     *)

(* The largest value handed to _nearest_multiple, in hundredths of an ounce *)
MaxValue == 600

(* shot_size is at least 0.5 (configure, line 290) *)
Steps == {50, 100, 150, 200}

InitNum ==
    /\ Controller
    /\ parsed = NoParsed
    /\ num \in [fn : {"nearest_multiple"}, value : 0 .. MaxValue,
                step : Steps, state : {"called"}]

NearestMultiple ==
    /\ num.fn = "nearest_multiple"
    /\ num.state = "called"
    /\ num' = [fn |-> num.fn, value |-> num.value, step |-> num.step,
               state |-> "returned",
               out |-> nearest_multiple(num.value, num.step)]
    /\ UNCHANGED <<SAFE_MODE, current_slot, gpio_ready, pin_map, gpio, pc, ret,
                   steps, reps, entry, status, io, cfg, disp, parsed, api, twin>>

NextNum ==
    \/ NearestMultiple

SpecNum == InitNum /\ [][NextNum]_vars

----------------------------------------------------------------------------
(* app._qty_to_oz.  A measure text is a sequence of characters and words;   *)
(* the words stand for their letters, "dash" for any garnish keyword, "x"   *)
(* for any other letter.                                                    *)

Digits == {"0", "1", "2"}

UnitWords == {"oz", "ml", "cl"}

GarnishWords == {"dash"}

Tokens == Digits \cup UnitWords \cup GarnishWords \cup {"/", ".", " ", "OZ", "x"}

(* The longest measure text *)
MaxLen == 5

Texts == UNION { [1 .. n -> Tokens] : n \in 0 .. MaxLen }

DigitVal(c) == CASE c = "0" -> 0 [] c = "1" -> 1 [] c = "2" -> 2

(* str.lower *)
Lower(t) == [i \in DOMAIN t |-> IF t[i] = "OZ" THEN "oz" ELSE t[i]]

(* str.strip *)
Strip(t) ==
    LET inked == {i \in DOMAIN t : t[i] # " "}
    IN  IF inked = {} THEN <<>> ELSE SubSeq(t, Min(inked), Max(inked))

(* The length of the longest run of members of S in t from position i: what *)
(* a greedy \d+ or \s* takes there.                                         *)
RECURSIVE Run(_, _, _)
Run(t, i, S) == IF i <= Len(t) /\ t[i] \in S THEN 1 + Run(t, i + 1, S) ELSE 0

(* float() of the k digits of t from position i *)
RECURSIVE Value(_, _, _)
Value(t, i, k) ==
    IF k = 0 THEN 0 ELSE Value(t, i, k - 1) * 10 + DigitVal(t[i + k - 1])

RECURSIVE Pow10(_)
Pow10(k) == IF k = 0 THEN 1 ELSE 10 * Pow10(k - 1)

(* Lines 91-95: the quantity n/d in the unit, converted and rounded to two  *)
(* decimals, in hundredths.                                                 *)
(* 1/200 is the one tie within MaxLen that is no binary fraction: the       *)
(* double 0.005 lies above it and round(0.005, 2) is 0.01.                  *)
Convert(n, d, unit) ==
    IF unit = "ml" THEN RoundHalfEven(n * 33814, d * 10000)
    ELSE IF unit = "cl" THEN RoundHalfEven(n * 33814, d * 1000)
    ELSE IF 200 * n = d THEN 1
    ELSE RoundHalfEven(n * 100, d)

Returned(oz) == [raised |-> FALSE, oz |-> oz]

ZeroDivision == [raised |-> TRUE, oz |-> 0]

(* The divisions of lines 77 and 86 raise ZeroDivisionError on a zero       *)
(* denominator.                                                             *)
Divide(n, d, unit) ==
    IF d = 0 THEN ZeroDivision ELSE Returned(Convert(n, d, unit))

(* Lines 74-79: "(\d+)\s+(\d)/(\d)" at the start of txt *)
MixedMatches(txt) ==
    LET k == Run(txt, 1, Digits)
        s == Run(txt, k + 1, {" "})
    IN  /\ k >= 1
        /\ s >= 1
        /\ Len(txt) >= k + s + 3
        /\ txt[k + s + 1] \in Digits
        /\ txt[k + s + 2] = "/"
        /\ txt[k + s + 3] \in Digits

Mixed(txt) ==
    LET k == Run(txt, 1, Digits)
        s == Run(txt, k + 1, {" "})
        whole == Value(txt, 1, k)
        n == DigitVal(txt[k + s + 1])
        den == DigitVal(txt[k + s + 3])
        found == {i \in DOMAIN txt : txt[i] \in UnitWords}
        unit == IF found = {} THEN "oz" ELSE txt[Min(found)]
    IN  Divide(whole * den + n, den, unit)

(* The unit group of line 82 at position p: "\s*(oz|ounce|ounces|ml|cl)?" *)
UnitAt(txt, p) ==
    LET q == p + Run(txt, p, {" "})
    IN  IF q <= Len(txt) /\ txt[q] \in UnitWords THEN txt[q] ELSE ""

(* Lines 82-88: "(\d+/\d+|\d+(?:\.\d+)?)\s*(unit)?" at the start of txt *)
Simple(txt) ==
    LET k == Run(txt, 1, Digits)
        isfrac == k + 1 <= Len(txt) /\ txt[k + 1] = "/"
                    /\ Run(txt, k + 2, Digits) >= 1
        isdec == k + 1 <= Len(txt) /\ txt[k + 1] = "."
                    /\ Run(txt, k + 2, Digits) >= 1
        f == Run(txt, k + 2, Digits)
    IN  IF k = 0 THEN Returned(0)
        ELSE IF isfrac
        THEN Divide(Value(txt, 1, k), Value(txt, k + 2, f),
                    UnitAt(txt, k + 2 + f))
        ELSE IF isdec
        THEN Divide(Value(txt, 1, k) * Pow10(f) + Value(txt, k + 2, f),
                    Pow10(f), UnitAt(txt, k + 2 + f))
        ELSE Divide(Value(txt, 1, k), 1, UnitAt(txt, k + 1))

qty_to_oz(raw) ==
    IF raw = <<>> THEN Returned(0)
    ELSE LET txt == Lower(Strip(raw))
         IN  IF \E i \in DOMAIN txt : txt[i] \in GarnishWords
             THEN Returned(0)
             ELSE IF MixedMatches(txt) THEN Mixed(txt)
             ELSE Simple(txt)

InitParse ==
    /\ Controller
    /\ num = NoNum
    /\ parsed \in [raw : Texts, state : {"measure"}]

(* _download_all, lines 212-217: the measure of one ingredient is parsed;   *)
(* nothing there catches an exception, which ends the download.             *)
DownloadMeasure ==
    /\ parsed.state = "measure"
    /\ parsed' = [raw |-> parsed.raw,
                  state |-> IF qty_to_oz(parsed.raw).raised THEN "aborted"
                            ELSE "ingested",
                  out |-> qty_to_oz(parsed.raw)]
    /\ UNCHANGED <<SAFE_MODE, current_slot, gpio_ready, pin_map, gpio, pc, ret,
                   steps, reps, entry, status, io, cfg, disp, num, api, twin>>

NextParse ==
    \/ DownloadMeasure

SpecParse == InitParse /\ [][NextParse]_vars

----------------------------------------------------------------------------
(* Properties of the controller *)

(* C1: a rotate_to_slot or press_actuator call entered with safe mode on    *)
(* makes no GPIO output on STEP, DIR or ACTUATOR, whatever came before.     *)
C1_SafeModeNoDrive ==
    (entry.op \in {"rotate", "press"} /\ entry.safe0)
        => io["step"] = 0 /\ io["dir"] = 0 /\ io["act"] = 0

(* A safe-mode rotation to another slot, on hardware set up earlier *)
C1_Witness ==
    /\ entry.op = "rotate"
    /\ entry.safe0
    /\ entry.ready0
    /\ entry.arg # entry.slot0
    /\ current_slot = entry.arg

(* C3: a real-mode rotate_to_slot(target) from slot c has issued            *)
(* ((target - c) mod 12) * STEPS_PER_SLOT pulses when it returns, 1330 from  *)
(* slot 3 to slot 1; _current_slot is c until the last pulse is out and     *)
(* target once the call returns.                                            *)
C3_ClockwisePulses ==
    (entry.op = "rotate" /\ ~entry.safe0) =>
        LET total == ((entry.arg - entry.slot0) % 12) * STEPS_PER_SLOT
        IN  /\ status = "returned"
                => io["step"] = total /\ current_slot = entry.arg
            /\ status # "returned" => current_slot = entry.slot0
            /\ io["step"] < total => current_slot = entry.slot0
            /\ pc = "rot_loop" => io["step"] + steps = total
            /\ (entry.slot0 = 3 /\ entry.arg = 1 /\ status = "returned")
                => io["step"] = 1330

(* The rotation from slot 3 to slot 1 has returned *)
C3_Witness ==
    /\ entry.op = "rotate"
    /\ ~entry.safe0
    /\ entry.slot0 = 3
    /\ entry.arg = 1
    /\ status = "returned"
    /\ io["step"] = 10 * STEPS_PER_SLOT
    /\ current_slot = 1

(* C7: a cleanup() on initialized hardware de-asserts ENABLE and releases   *)
(* the GPIO; a cleanup() on hardware already released makes no backend call *)
(* and changes nothing.                                                     *)
C7_CleanupIdempotent ==
    (entry.op = "cleanup" /\ status = "returned") =>
        /\ (entry.ready0 /\ entry.setup0)
            => io["enable_high"] = 1 /\ io["release"] = 1 /\ ~gpio.setup
        /\ ~entry.setup0 => io = NoIo

(* C8 as claimed: with safe mode on, set_pin_map makes no backend call *)
C8_PureInSafeMode ==
    (entry.op = "set_pin_map" /\ entry.safe0) => io = NoIo

(* C8 as amended: set_pin_map never drives a pin nor sets the GPIO up; its  *)
(* one backend call is GPIO.cleanup(), made exactly when _gpio_ready was    *)
(* true, in safe mode too; _gpio_ready is false afterwards.                 *)
C8_ReleasesWhenReady ==
    entry.op = "set_pin_map" =>
        /\ io = [NoIo EXCEPT !["release"] = IF entry.ready0 THEN 1 ELSE 0]
        /\ (pc = "idle" \/ pc = "md_safe") => ~gpio_ready

(* set_pin_map in safe mode on hardware initialized in real mode *)
C8_Witness ==
    /\ entry.op = "set_pin_map"
    /\ entry.safe0
    /\ entry.ready0
    /\ entry.setup0
    /\ io["release"] = 1

----------------------------------------------------------------------------
(* Properties of the dispense *)

HasMissing(drink, c) == \E i \in DOMAIN drink : ~avail(drink[i].item, c)

(* C2: the dispense of a recipe with an unavailable ingredient calls        *)
(* neither rotate_to_slot nor press_actuator.                               *)
C2_NoPartialServe ==
    (disp.state # "none" /\ HasMissing(disp.drink, cfg)) => disp.calls = <<>>

Martini == <<[item |-> "gin", qty_oz |-> 200],
             [item |-> "vermouth", qty_oz |-> 50]>>

(* C5: gin 2.0 oz and vermouth 0.5 oz with gin in a slot and shot_size 1.5  *)
(* scale to gin 6.0 and vermouth 1.5, and the dispense rotates to the gin   *)
(* slot and presses 4 times for gin.                                        *)
C5_MartiniFourPresses ==
    (disp.drink = scale(Martini) /\ InSlots("gin", cfg)
        /\ cfg.shot_size = 1500) =>
        /\ scale_for_slots(disp.drink, cfg)
            = <<[item |-> "gin", qty_oz |-> 600],
                [item |-> "vermouth", qty_oz |-> 150]>>
        /\ \A k \in DOMAIN disp.calls :
            disp.calls[k].item = "gin" =>
                \/ /\ disp.calls[k].op = "rotate"
                   /\ disp.calls[k].arg = Index("gin", cfg.slots)
                \/ /\ disp.calls[k].op = "press"
                   /\ disp.calls[k].arg = 4

(* C6: every quantity press_actuator is called for is the slot-aware        *)
(* rescale of the recipe under the current config, a whole number of shots. *)
C6_WholeShots ==
    \A k \in DOMAIN disp.calls :
        disp.calls[k].op = "press" =>
            /\ (10 * disp.calls[k].qty) % cfg.shot_size = 0
            /\ \E i \in DOMAIN disp.drink :
                /\ disp.drink[i].item = disp.calls[k].item
                /\ scale_for_slots(disp.drink, cfg)[i].qty_oz
                    = disp.calls[k].qty

(* C9: when a backend write of rotate_to_slot or press_actuator raises,     *)
(* ENABLE is de-asserted and the GPIO released before the caller sees the   *)
(* fault, and the dispense makes no further call.                           *)
C9_CleanupBeforePropagate ==
    (status = "raised" /\ entry.op \in {"rotate", "press"}) =>
        /\ ~gpio.setup
        /\ gpio.enable # "LOW"
        /\ disp.state = "raised"
        /\ pc = "md_done"

----------------------------------------------------------------------------
(* Properties of the pure functions *)

Multiples(step) == {k * step : k \in 0 .. (MaxValue \div step) + 2}

Dist(a, b) == IF a >= b THEN a - b ELSE b - a

(* C4: nearest_multiple returns the multiple of step closest to value, the  *)
(* lower one on an exact tie: 1.5 for (2.25, 1.5), 3.0 for (2.99, 1.5),     *)
(* 4.5 for (3.76, 1.5).                                                     *)
C4_NearestTieDown ==
    num.state = "returned" =>
        /\ num.out \in Multiples(num.step)
        /\ \A m \in Multiples(num.step) :
            Dist(num.out, num.value) <= Dist(m, num.value)
        /\ 2 * (num.value % num.step) = num.step
            => num.out = num.value - (num.value % num.step)
        /\ (num.value = 225 /\ num.step = 150) => num.out = 150
        /\ (num.value = 299 /\ num.step = 150) => num.out = 300
        /\ (num.value = 376 /\ num.step = 150) => num.out = 450

(* C10: _qty_to_oz raises for no measure text: it returns a value >= 0,     *)
(* 0.0 for a text with a garnish keyword or with no number at its start,    *)
(* and no measure aborts the download.                                      *)
C10_ParseNeverRaises ==
    parsed.state \notin {"none", "measure"} =>
        /\ ~parsed.out.raised
        /\ parsed.out.oz >= 0
        /\ parsed.state = "ingested"
        /\ (\E i \in DOMAIN parsed.raw : parsed.raw[i] \in GarnishWords)
            => parsed.out.oz = 0
        /\ (Strip(parsed.raw) = <<>> \/ Strip(parsed.raw)[1] \notin Digits)
            => parsed.out.oz = 0

----------------------------------------------------------------------------
(* Properties of concurrent requests *)

(* C11: with a make_drink and an api_rotate handled at the same time, the   *)
(* turret is turned by one request only while the other dispenses: every    *)
(* actuator press of the dispense runs with _current_slot at the slot       *)
(* resolved for the ingredient being dispensed.                             *)
C11_OneDispenseAtATime ==
    (ret = "md_next" /\ pc \in {"press_ensure", "press_loop"}
        /\ entry.arg > 0)
        => current_slot = slot_for(Item, cfg)

(* C12: whatever requests were served, api_rotate and make_drink hand       *)
(* rotate_to_slot a slot in [0,12) and _current_slot is in [0,12).          *)
C12_SlotInRange ==
    /\ current_slot \in 0 .. TOTAL_SLOTS - 1
    /\ api.pc \notin {"idle", "ar_error"} => api.slot \in 0 .. TOTAL_SLOTS - 1
    /\ \A k \in DOMAIN disp.calls :
         disp.calls[k].op = "rotate"
            => disp.calls[k].arg \in 0 .. TOTAL_SLOTS - 1

(* /api/rotate/12 has turned the turret, in real mode, to the last slot *)
C12_Witness ==
    /\ api.pc = "ar_done"
    /\ api.slot = TOTAL_SLOTS - 1
    /\ current_slot = TOTAL_SLOTS - 1
    /\ ~SAFE_MODE
    /\ gpio_ready

----------------------------------------------------------------------------
(* Properties of the resolver *)

Bottled(c) == {c.slots[i] : i \in DOMAIN c.slots} \ {NoBottle}

Stocked(c) == Bottled(c) \cup c.pantry

(* C13: an item is available iff it is in a slot or the pantry, or its      *)
(* substitute is; a substitute that is itself only substituted does not     *)
(* count.  An item present only through a substitute that is in the pantry  *)
(* and in no slot is available and has no slot.                             *)
C13_OneHop ==
    num.state = "returned" /\ num.fn = "resolve" =>
        LET c == num.c
            item == num.item
            subbed(x) == x \in DOMAIN c.substitutions
            sub(x) == c.substitutions[x]
        IN  /\ num.available <=>
                \/ item \in Stocked(c)
                \/ subbed(item) /\ sub(item) \in Stocked(c)
            /\ (/\ item \notin Stocked(c)
                /\ subbed(item)
                /\ sub(item) \notin Stocked(c)
                /\ subbed(sub(item))
                /\ sub(sub(item)) \in Stocked(c)) => ~num.available
            /\ (/\ item \notin Stocked(c)
                /\ subbed(item)
                /\ sub(item) \in c.pantry
                /\ sub(item) \notin Bottled(c))
                    => num.available /\ num.slot = NoSlot

(* lime is replaced by vermouth, vermouth by gin, and only gin is stocked;  *)
(* the resolver has answered for lime.                                      *)
C13_Witness ==
    /\ num.state = "returned"
    /\ num.fn = "resolve"
    /\ num.item = "lime"
    /\ num.c.substitutions = [x \in {"lime", "vermouth"} |->
                                IF x = "lime" THEN "vermouth" ELSE "gin"]
    /\ Stocked(num.c) = {"gin"}
    /\ ~num.available
    /\ num.slot = NoSlot

----------------------------------------------------------------------------
(* Properties of _scale *)

Liquids(lst) == {i \in DOMAIN lst : lst[i].qty_oz > 0}

Scaled == num.fn = "scale" /\ num.state \in {"returned", "rescaled"}

(* C14 as claimed: when the list has a liquid, the smallest liquid of the   *)
(* result is 1.5 within 0.01, any two liquids stand in the ratio they had   *)
(* before, and the zero quantities are still zero.                          *)
C14_RatiosKept ==
    (Scaled /\ Liquids(num.lst) # {}) =>
        /\ Liquids(num.out) = Liquids(num.lst)
        /\ Dist(Min({num.out[i].qty_oz : i \in Liquids(num.out)}),
                REFERENCE) <= 1
        /\ \A i, j \in Liquids(num.lst) :
             num.out[i].qty_oz * num.lst[j].qty_oz
                = num.out[j].qty_oz * num.lst[i].qty_oz

(* C14 as amended: the smallest liquid of the result is exactly 1.5, every  *)
(* liquid is within half a hundredth of qty * 1.5 / min (so the ratios are  *)
(* kept up to the rounding to two decimals), zero quantities, items and     *)
(* order are unchanged.                                                     *)
C14_RatiosKeptToRounding ==
    (Scaled /\ Liquids(num.lst) # {}) =>
        LET least == Min({num.lst[i].qty_oz : i \in Liquids(num.lst)})
        IN  /\ DOMAIN num.out = DOMAIN num.lst
            /\ Liquids(num.out) = Liquids(num.lst)
            /\ Min({num.out[i].qty_oz : i \in Liquids(num.out)}) = REFERENCE
            /\ \A i \in DOMAIN num.lst :
                 /\ num.out[i].item = num.lst[i].item
                 /\ 2 * Dist(num.out[i].qty_oz * least,
                             num.lst[i].qty_oz * REFERENCE) <= least

(* 0.33 oz and 1 oz have become 1.5 oz and 4.55 oz *)
C14_Witness ==
    /\ Scaled
    /\ Len(num.lst) = 2
    /\ num.lst[1].qty_oz = 33
    /\ num.lst[2].qty_oz = 100
    /\ num.out[1].qty_oz = 150
    /\ num.out[2].qty_oz = 455

(* C15: _scale applied to a result of _scale changes no quantity, whatever  *)
(* the list was.                                                            *)
C15_ScaleIdempotent ==
    (num.fn = "scale" /\ num.state = "rescaled") => num.again = num.out

(* 0.5 oz and 2 oz, scaled to 1.5 oz and 6 oz, and scaled again *)
C15_Witness ==
    /\ num.fn = "scale"
    /\ num.state = "rescaled"
    /\ Len(num.lst) = 2
    /\ num.lst[1].qty_oz = 50
    /\ num.lst[2].qty_oz = 200
    /\ num.out[2].qty_oz = 600
    /\ num.again = num.out

----------------------------------------------------------------------------
(* Properties of the events of a dispense *)

Terminals(ev) == {k \in DOMAIN ev : ev[k] \in {"missing", "ready"}}

(* A terminal event is the last one, and the handler is at its end *)
TerminalIsLast ==
    \A k \in Terminals(disp.events) :
        k = Len(disp.events) /\ pc = "md_done"

(* "missing" is for the first unavailable ingredient in recipe order *)
MissingIsFirst ==
    disp.state = "missing" =>
        /\ ~avail(Item, cfg)
        /\ \A j \in 1 .. disp.idx - 1 : avail(disp.drink[j].item, cfg)

(* C16 as claimed: nothing follows a "missing" event, and every dispense    *)
(* is ended by exactly one terminal event, "missing" or "ready".            *)
C16_OneTerminalEvent ==
    /\ TerminalIsLast
    /\ MissingIsFirst
    /\ (pc = "md_done" /\ disp.drink # <<>>)
            => Cardinality(Terminals(disp.events)) = 1

(* C16 as amended: nothing follows a "missing" event, and every dispense    *)
(* that no hardware fault cuts short is ended by exactly one terminal       *)
(* event; a dispense ended by a fault has none.                             *)
C16_OneTerminalUnlessFault ==
    /\ TerminalIsLast
    /\ MissingIsFirst
    /\ (pc = "md_done" /\ disp.drink # <<>>) =>
            IF disp.state = "raised"
            THEN Terminals(disp.events) = {}
            ELSE Cardinality(Terminals(disp.events)) = 1

(* A dispense has poured one ingredient and stopped at a missing one *)
C16_Witness ==
    /\ pc = "md_done"
    /\ disp.state = "missing"
    /\ disp.idx = 2
    /\ Len(disp.calls) = 2
    /\ disp.events[Len(disp.events)] = "missing"

----------------------------------------------------------------------------
(* Properties of scale_for_slots *)

SlotLiquids(lst, c) ==
    {i \in DOMAIN lst : InSlots(lst[i].item, c) /\ lst[i].qty_oz > 0}

(* The largest slot liquid, in thousandths *)
Anchor(lst, c) == 10 * Max({lst[i].qty_oz : i \in SlotLiquids(lst, c)})

(* What the anchor is scaled to *)
AnchorTarget(lst, c) ==
    IF nearest_multiple(Anchor(lst, c), c.shot_size) = 0
    THEN c.shot_size
    ELSE nearest_multiple(Anchor(lst, c), c.shot_size)

Rescaled == num.fn = "scale_for_slots" /\ num.state = "returned"

(* Zero quantities, items and order are kept; liquids outside the slots     *)
(* are multiplied by target / anchor (and rounded to two decimals); with    *)
(* no slot liquid the list is returned as it is.                            *)
RescaleKeepsTheRest ==
    Rescaled =>
        IF SlotLiquids(num.lst, num.c) = {} THEN num.out = num.lst
        ELSE /\ DOMAIN num.out = DOMAIN num.lst
             /\ \A i \in DOMAIN num.lst :
                  /\ num.out[i].item = num.lst[i].item
                  /\ num.lst[i].qty_oz = 0 => num.out[i].qty_oz = 0
                  /\ (num.lst[i].qty_oz > 0
                        /\ i \notin SlotLiquids(num.lst, num.c))
                      => 2 * Dist(num.out[i].qty_oz * Anchor(num.lst, num.c),
                                  num.lst[i].qty_oz
                                    * AnchorTarget(num.lst, num.c))
                            <= Anchor(num.lst, num.c)

(* C17 as claimed: the anchor ends at a positive multiple of shot_size,     *)
(* every slot liquid at a whole multiple of shot_size; the rest as above.   *)
C17_SlotLiquidsOnMultiples ==
    /\ RescaleKeepsTheRest
    /\ Rescaled =>
        \A i \in SlotLiquids(num.lst, num.c) :
            /\ (10 * num.out[i].qty_oz) % num.c.shot_size = 0
            /\ 10 * num.lst[i].qty_oz = Anchor(num.lst, num.c)
                => num.out[i].qty_oz > 0

(* C17 as amended: the anchor ends at a positive multiple of shot_size      *)
(* rounded to two decimals, every slot liquid at a multiple of shot_size    *)
(* rounded to two decimals: whole multiples when shot_size itself has no    *)
(* more than two decimals; the rest as above.                               *)
C17_SlotLiquidsOnRoundedMultiples ==
    /\ RescaleKeepsTheRest
    /\ Rescaled =>
        \A i \in SlotLiquids(num.lst, num.c) :
            LET shot == num.c.shot_size
                q == num.out[i].qty_oz
                least == IF 10 * num.lst[i].qty_oz = Anchor(num.lst, num.c)
                         THEN 1 ELSE 0
            IN  /\ \E k \in least .. ((10 * q) \div shot) + 1 :
                     2 * Dist(10 * q, k * shot) <= 10
                /\ shot % 10 = 0 => (10 * q) % shot = 0
                /\ least = 1 => q > 0

(* 1.5 oz of gin from a slot with a shot of 4 oz: the nearest multiple is   *)
(* 0, the target is forced to one shot.                                     *)
C17_Witness ==
    /\ Rescaled
    /\ num.c.shot_size = 4000
    /\ InSlots("gin", num.c)
    /\ Len(num.lst) = 2
    /\ num.lst[1] = [item |-> "gin", qty_oz |-> 150]
    /\ num.lst[2] = [item |-> "lime", qty_oz |-> 225]
    /\ num.out[1].qty_oz = 400
    /\ num.out[2].qty_oz = 600

----------------------------------------------------------------------------
(* Properties of re-initialization *)

(* C18: after set_pin_map, _gpio_ready is false, the pin map is the old one *)
(* with the entries of the call replaced, and _current_slot and SAFE_MODE   *)
(* are as before; a real-mode rotate_to_slot or press_actuator entered with *)
(* _gpio_ready false has set up the pins of the current map and asserted    *)
(* ENABLE before its first DIR, STEP or ACTUATOR output.                    *)
C18_ReinitAfterPinMap ==
    /\ entry.op = "set_pin_map" =>
        /\ ~gpio_ready
        /\ \A s \in Signals :
             pin_map[s] = IF s \in DOMAIN entry.arg THEN entry.arg[s]
                          ELSE entry.map0[s]
        /\ current_slot = entry.slot0
        /\ SAFE_MODE = entry.safe0
    /\ (entry.op \in {"rotate", "press"} /\ ~entry.safe0 /\ ~entry.ready0
            /\ io["dir"] + io["step"] + io["act"] > 0) =>
        /\ io["setup"] = 1
        /\ io["enable_low"] = 1
        /\ io["stray"] = 0
        /\ gpio_ready
        /\ gpio.setup
        /\ gpio.enable = "LOW"
        /\ gpio.pins = {pin_map[s] : s \in Signals}

(* The actuator pin was changed to 19; the next press set the GPIO up on    *)
(* the new pins and pressed.                                                *)
C18_Witness ==
    /\ entry.op = "press"
    /\ ~entry.safe0
    /\ ~entry.ready0
    /\ pin_map["ACTUATOR"] = 19
    /\ gpio.pins = {20, 21, 16, 19}
    /\ io["setup"] = 1
    /\ io["act"] = 1

----------------------------------------------------------------------------
(* Properties of the order of a dispense *)

(* The bottle of the item, or else of its substitute, stands in the slot *)
BottleAt(slot, item, c) ==
    /\ slot \in 0 .. TOTAL_SLOTS - 1
    /\ \/ c.slots[slot + 1] = item
       \/ /\ item \notin Bottled(c)
          /\ item \in DOMAIN c.substitutions
          /\ c.slots[slot + 1] = c.substitutions[item]

HasBottle(item, c) == \E slot \in 0 .. TOTAL_SLOTS - 1 : BottleAt(slot, item, c)

(* The place of an item in the recipe *)
Place(item) == CHOOSE j \in DOMAIN disp.drink : disp.drink[j].item = item

(* C19: the calls of a dispense follow the recipe: for each ingredient      *)
(* with a slot, in recipe order, one rotate_to_slot to its slot and then    *)
(* one press_actuator(round(qty_oz)), entered and run with _current_slot at *)
(* that slot; for a pantry ingredient no call.                              *)
C19_RotateThenPress ==
    LET calls == disp.calls
    IN  /\ \A k \in DOMAIN calls :
             /\ HasBottle(calls[k].item, cfg)
             /\ Place(calls[k].item) <= disp.idx
             /\ calls[k].qty = disp.drink[Place(calls[k].item)].qty_oz
             /\ calls[k].op = "rotate" =>
                   /\ BottleAt(calls[k].arg, calls[k].item, cfg)
                   /\ k > 1 =>
                         /\ calls[k - 1].op = "press"
                         /\ Place(calls[k - 1].item) < Place(calls[k].item)
             /\ calls[k].op = "press" =>
                   /\ k > 1
                   /\ calls[k - 1].op = "rotate"
                   /\ calls[k - 1].item = calls[k].item
                   /\ calls[k].at = calls[k - 1].arg
                   /\ 2 * Dist(100 * calls[k].arg, calls[k].qty) <= 100
                   /\ 2 * Dist(100 * calls[k].arg, calls[k].qty) = 100
                         => calls[k].arg % 2 = 0
        /\ \A j \in 1 .. disp.idx - 1 :
             j <= Len(disp.drink) =>
                (HasBottle(disp.drink[j].item, cfg)
                    <=> \E k \in DOMAIN calls :
                            calls[k].item = disp.drink[j].item)
        /\ (ret = "md_next" /\ pc \in {"press_ensure", "press_loop"})
             => BottleAt(current_slot, Item, cfg)

(* In real mode gin was poured from slot 1, then the turret went on to the  *)
(* vermouth in slot 10 and the actuator is pressing there.                  *)
C19_Witness ==
    /\ ~SAFE_MODE
    /\ pc = "press_loop"
    /\ Len(disp.calls) = 4
    /\ disp.calls[2].at = 1
    /\ disp.calls[4].at = 10
    /\ current_slot = 10
    /\ io["act"] >= 1

----------------------------------------------------------------------------
(* Properties of the two paths *)

(* C20 as claimed: after each call of a sequence of rotate_to_slot and      *)
(* press_actuator calls, _current_slot is what the same calls leave with    *)
(* safe mode on; the pin map is the same too.                               *)
C20_SameShape ==
    (twin.state = "run" /\ pc = "idle") =>
        /\ current_slot = twin.slot
        /\ pin_map = DEFAULT_PIN_MAP

(* C20 as amended: the same, as long as no backend write of the real run    *)
(* has failed; a rotate_to_slot that raises leaves _current_slot where it   *)
(* was, while with safe mode on it is at the target.                        *)
C20_SameShapeUnlessFault ==
    (twin.state = "run" /\ pc = "idle") =>
        /\ (~twin.faulted /\ status # "raised") => current_slot = twin.slot
        /\ (~twin.faulted /\ status = "raised" /\ entry.op = "rotate")
                => current_slot = entry.slot0 /\ twin.slot = entry.arg
        /\ pin_map = DEFAULT_PIN_MAP

(* The real rotation from slot 3 to slot 1 has returned, 1330 pulses out,   *)
(* and both runs are at slot 1.                                             *)
C20_Witness ==
    /\ twin.state = "run"
    /\ ~twin.faulted
    /\ pc = "idle"
    /\ status = "returned"
    /\ entry.op = "rotate"
    /\ entry.slot0 = 3
    /\ twin.slot = 1
    /\ current_slot = 1
    /\ io["step"] = 10 * STEPS_PER_SLOT

----------------------------------------------------------------------------
(* Properties of the ready flag *)

(* C21: between calls _gpio_ready is true exactly when the GPIO is set up   *)
(* (set up and not released since), and no call of set_pin_map,             *)
(* set_safe_mode, rotate_to_slot, press_actuator or cleanup writes a STEP,  *)
(* DIR, ACTUATOR or ENABLE output on a GPIO that is not set up.             *)
C21_ReadyAgreesWithBackend ==
    /\ pc = "idle" => (gpio_ready <=> gpio.setup)
    /\ io["stray"] = 0

====
